---- MODULE Spec2Model ----
(***************************************************************************)
(* Level-1 quality control of hourly PM2.5 / PM10 series                   *)
(* (Aplicativo_Nivel1.py): operating ranges (RF), temporal consistency     *)
(* (CT), internal consistency (CI) and the final state (N1).               *)
(*                                                                         *)
(* Numeric cells are modelled as <<v>> (a number) or <<>> (NaN).  All      *)
(* channels are integers; PM25_FLOW_Avg is counted in thousandths, so the  *)
(* limits 1.164 and 1.236 are 1164 and 1236.  Python's 0-based position i  *)
(* is position k = i + 1 of a sequence here.                               *)
(***************************************************************************)
EXTENDS Integers, Sequences, FiniteSets

VARIABLES pc, df_nuevo, Bandera_RF, Bandera_CT_PM25, Bandera_CT_PM10, ratio,
          Bandera_CI_PM25, Bandera_CI_PM10, Bandera_N1_PM25, Bandera_N1_PM10

vars == <<pc, df_nuevo, Bandera_RF, Bandera_CT_PM25, Bandera_CT_PM10, ratio,
          Bandera_CI_PM25, Bandera_CI_PM10, Bandera_N1_PM25, Bandera_N1_PM10>>

\* ---------------------------------------------------------------- bounds
\* longest series fed to the whole pipeline
MaxFilas == 4
\* longest series fed to the temporal detector alone
MaxSerie == 6

\* ---------------------------------------------------------------- values
NaN == <<>>
None == <<>>
Num(v) == <<v>>
Val(x) == x[1]
\* pd.isna / `a is None or (isinstance(a, float) and np.isnan(a))`
isna(x) == x = NaN
\* Python == on two cells: NaN is equal to nothing, itself included
PyEq(x, y) == ~isna(x) /\ ~isna(y) /\ Val(x) = Val(y)
\* Python != is the negation of ==, so NaN differs from everything
PyNe(x, y) == ~PyEq(x, y)

\* a missing cell of an object (string) column; flags are strings, never missing
NA == "<NA>"
isna_obj(f) == f = NA

Banderas == {"C", "D", "M", "ND", "Dudoso"}

\* ---------------------------------------------------------------- RF
limites ==
  [PM25_CONC_Avg      |-> <<Num(0), Num(6000)>>,
   PM25_FLOW_Avg      |-> <<Num(1164), Num(1236)>>,
   PM25_AMB_TEMP_Avg  |-> <<Num(-20), Num(50)>>,
   PM25_AMB_RH_Avg    |-> <<None, Num(95)>>,
   PM25_BARO_PRES_Avg |-> <<Num(900), Num(1100)>>,
   PM10_CONC_Avg      |-> <<Num(0), Num(10000)>>]

Columnas == DOMAIN limites

vars_conc == {"PM10_CONC_Avg", "PM25_CONC_Avg"}

\* `(lim_inf is not None and valor < lim_inf) or (lim_sup is not None and valor > lim_sup)`
FueraDeRango(col, valor) ==
  LET lim_inf == limites[col][1]
      lim_sup == limites[col][2]
  IN \/ (lim_inf # None /\ Val(valor) < Val(lim_inf))
     \/ (lim_sup # None /\ Val(valor) > Val(lim_sup))

\* mutant: the comparisons against the limits are not strict
verificar_limites_incl(row) ==
  LET fuera(col) == \/ (limites[col][1] # None /\ Val(row[col]) <= Val(limites[col][1]))
                    \/ (limites[col][2] # None /\ Val(row[col]) >= Val(limites[col][2]))
      tiene_dato_conc == \E col \in vars_conc : ~isna(row[col])
      tiene_fuera_rango == \E col \in Columnas : ~isna(row[col]) /\ fuera(col)
      tiene_no_conc_vacia == \E col \in Columnas \ vars_conc : isna(row[col])
  IN IF ~tiene_dato_conc THEN "ND"
     ELSE IF tiene_fuera_rango THEN "M"
     ELSE IF tiene_no_conc_vacia THEN "Dudoso"
     ELSE "C"

\* The loop over limites.items() only accumulates booleans, so each flag is
\* the disjunction (conjunction) over the columns of what one pass sets.
verificar_limites(row) ==
  LET presentes == {col \in Columnas : ~isna(row[col])}
      tiene_alguna_variable == presentes # {}
      tiene_dato_conc == presentes \cap vars_conc # {}
      tiene_no_conc_vacia == \E col \in Columnas \ vars_conc : isna(row[col])
      tiene_fuera_rango == \E col \in presentes : FueraDeRango(col, row[col])
      concentraciones_dentro_rango ==
        \A col \in presentes \cap vars_conc : ~FueraDeRango(col, row[col])
  IN IF ~tiene_alguna_variable THEN "ND"
     ELSE IF ~tiene_dato_conc THEN "ND"
     ELSE IF tiene_fuera_rango THEN "M"
     ELSE IF tiene_no_conc_vacia /\ concentraciones_dentro_rango THEN "Dudoso"
     ELSE "C"

\* ---------------------------------------------------------------- CT
\* `x is not None and not (isinstance(x, float) and np.isnan(x))`
EsValido(x) == ~isna(x)

\* mutant: no look-ahead, every record from the third of a run on is marked
consistencia_temporal_sin_siguiente(serie) ==
  [k \in 1..Len(serie) |->
     IF isna(serie[k]) THEN "ND"
     ELSE IF k - 1 >= 2 /\ PyEq(serie[k], serie[k-1]) /\ PyEq(serie[k-1], serie[k-2])
          THEN "D" ELSE "C"]

\* mutant: the end of the series does not close a run
consistencia_temporal_sin_final(serie) ==
  [k \in 1..Len(serie) |->
     IF isna(serie[k]) THEN "ND"
     ELSE IF /\ k - 1 >= 2
             /\ PyEq(serie[k], serie[k-1]) /\ PyEq(serie[k-1], serie[k-2])
             /\ k - 1 < Len(serie) - 1 /\ PyNe(serie[k+1], serie[k])
          THEN "D" ELSE "C"]

\* mutant: only a valid, different next value closes a run
consistencia_temporal_siguiente_valido(serie) ==
  [k \in 1..Len(serie) |->
     IF isna(serie[k]) THEN "ND"
     ELSE IF /\ k - 1 >= 2
             /\ PyEq(serie[k], serie[k-1]) /\ PyEq(serie[k-1], serie[k-2])
             /\ \/ k - 1 = Len(serie) - 1
                \/ (EsValido(serie[k+1]) /\ Val(serie[k+1]) # Val(serie[k]))
          THEN "D" ELSE "C"]

consistencia_temporal(serie) ==
  [k \in 1..Len(serie) |->
     LET i == k - 1
         a == serie[k]
     IN IF isna(a) THEN "ND"
        ELSE IF /\ i >= 2
                /\ LET b == serie[k-1]
                       c == serie[k-2]
                   IN /\ \A x \in {a, b, c} : EsValido(x)
                      /\ PyEq(a, b) /\ PyEq(b, c)
                      /\ (i = Len(serie) - 1 \/ PyNe(serie[k+1], a))
             THEN "D"
             ELSE "C"]

Columna(df, col) == [k \in 1..Len(df) |-> df[k][col]]

\* ---------------------------------------------------------------- CI
\* Series division: NaN if an operand is NaN, 0/0 is NaN, x/0 is +inf or -inf,
\* otherwise the quotient, kept exact as numerator and denominator.
Dividir(x, y) ==
  IF isna(x) \/ isna(y) THEN [kind |-> "nan", num |-> 0, den |-> 0]
  ELSE IF Val(y) = 0
       THEN IF Val(x) = 0 THEN [kind |-> "nan", num |-> 0, den |-> 0]
            ELSE IF Val(x) > 0 THEN [kind |-> "inf", num |-> Val(x), den |-> 0]
            ELSE [kind |-> "-inf", num |-> Val(x), den |-> 0]
       ELSE [kind |-> "num", num |-> Val(x), den |-> Val(y)]

\* pd.isna(x) on a float: true of NaN only, not of +-inf
isna_ratio(r) == r.kind = "nan"

\* `x > 1`
MayorQueUno(r) ==
  CASE r.kind = "inf"  -> TRUE
    [] r.kind = "-inf" -> FALSE
    [] r.kind = "nan"  -> FALSE
    [] r.kind = "num"  -> IF r.den > 0 THEN r.num > r.den ELSE r.num < r.den

\* mutant: the comparison is >= 1
Bandera_CI_mayor_igual(x) ==
  IF isna_ratio(x) THEN "ND"
  ELSE IF MayorQueUno(x) \/ (x.kind = "num" /\ x.num = x.den) THEN "D" ELSE "C"

\* `lambda x: 'ND' if pd.isna(x) else ('D' if x > 1 else 'C')`
Bandera_CI(x) ==
  IF isna_ratio(x) THEN "ND" ELSE IF MayorQueUno(x) THEN "D" ELSE "C"

\* ---------------------------------------------------------------- N1
\* mutant: D is tested before M
estado_final_d_primero(filas) ==
  IF \E j \in 1..Len(filas) : filas[j] = "D" THEN "D"
  ELSE IF \E j \in 1..Len(filas) : filas[j] = "M" THEN "M"
  ELSE IF \A j \in 1..Len(filas) : filas[j] = "C" THEN "C"
  ELSE "ND"

\* mutant: the ND flags are skipped when testing for all-C
estado_final_omite_nd(filas) ==
  IF \A j \in 1..Len(filas) : filas[j] = "ND" THEN "ND"
  ELSE IF \E j \in 1..Len(filas) : filas[j] = "M" THEN "M"
  ELSE IF \E j \in 1..Len(filas) : filas[j] = "D" THEN "D"
  ELSE IF \A j \in 1..Len(filas) : filas[j] # "ND" => filas[j] = "C" THEN "C"
  ELSE "ND"

\* mutant: any() where the code has all()
estado_final_alguna_c(filas) ==
  IF \E j \in 1..Len(filas) : filas[j] = "M" THEN "M"
  ELSE IF \E j \in 1..Len(filas) : filas[j] = "D" THEN "D"
  ELSE IF \E j \in 1..Len(filas) : filas[j] = "C" THEN "C"
  ELSE "ND"

\* mutant: the catch-all returns the range flag
estado_final_dudoso(filas) ==
  IF \E j \in 1..Len(filas) : filas[j] = "M" THEN "M"
  ELSE IF \E j \in 1..Len(filas) : filas[j] = "D" THEN "D"
  ELSE IF \A j \in 1..Len(filas) : filas[j] = "C" THEN "C"
  ELSE filas[1]

estado_final(filas) ==
  IF \A j \in 1..Len(filas) : isna_obj(filas[j]) THEN "ND"
  ELSE IF \E j \in 1..Len(filas) : filas[j] = "M" THEN "M"
  ELSE IF \E j \in 1..Len(filas) : filas[j] = "D" THEN "D"
  ELSE IF \A j \in 1..Len(filas) : ~isna_obj(filas[j]) => filas[j] = "C" THEN "C"
  ELSE "ND"

\* ---------------------------------------------------------------- columns
ColRF(df) == [k \in 1..Len(df) |-> verificar_limites(df[k])]
ColRatio(df) == [k \in 1..Len(df) |-> Dividir(df[k].PM25_CONC_Avg, df[k].PM10_CONC_Avg)]
ColCI(r) == [k \in 1..Len(r) |-> Bandera_CI(r[k])]
ColN1(rf, ct, ci) == [k \in 1..Len(rf) |-> estado_final(<<rf[k], ct[k], ci[k]>>)]

\* ---------------------------------------------------------------- inputs
Fila(pm25, pm10, flow, temp, rh, baro) ==
  [PM25_CONC_Avg |-> pm25, PM25_FLOW_Avg |-> flow, PM25_AMB_TEMP_Avg |-> temp,
   PM25_AMB_RH_Avg |-> rh, PM25_BARO_PRES_Avg |-> baro, PM10_CONC_Avg |-> pm10]

\* auxiliary channels: all in range, all missing (an hour the grid filled in,
\* or a station without them), flow out of range
AuxEnRango(pm25, pm10) == Fila(pm25, pm10, Num(1200), Num(20), Num(50), Num(1000))
AuxVacio(pm25, pm10) == Fila(pm25, pm10, NaN, NaN, NaN, NaN)
AuxFlujoFuera(pm25, pm10) == Fila(pm25, pm10, Num(1300), Num(20), Num(50), Num(1000))

Series(S, n) == UNION {[1..m -> S] : m \in 1..n}

\* rows of the whole-pipeline runs
ConcPipeline == {NaN, Num(5)}
FilasPipeline ==
  UNION {{AuxEnRango(a, b), AuxVacio(a, b), AuxFlujoFuera(a, b)} :
           <<a, b>> \in ConcPipeline \X ConcPipeline}

\* rows of the range runs: every channel missing, at, and one unit beyond
\* each of its limits
FilasRF ==
  {Fila(pm25, pm10, flow, temp, rh, baro) :
     pm25 \in {NaN, Num(-1), Num(0), Num(6000), Num(6001)},
     pm10 \in {NaN, Num(-1), Num(0), Num(10000), Num(10001)},
     flow \in {NaN, Num(1163), Num(1164), Num(1236), Num(1237)},
     temp \in {NaN, Num(-21), Num(-20), Num(50), Num(51)},
     rh   \in {NaN, Num(-1), Num(95), Num(96)},
     baro \in {NaN, Num(899), Num(900), Num(1100), Num(1101)}}

\* values of the temporal runs; PM10 carries the series back to front
ConcSerie == {NaN, Num(5), Num(9)}
Invertida(s) == [k \in 1..Len(s) |-> s[Len(s) + 1 - k]]
SeriesCT ==
  {[k \in 1..Len(s) |-> AuxEnRango(s[k], Invertida(s)[k])] : s \in Series(ConcSerie, MaxSerie)}

\* values of the ratio runs
ConcCI == {NaN, Num(-12), Num(-10), Num(-5), Num(0), Num(5), Num(10), Num(12)}
FilasCI == {AuxEnRango(a, b) : a \in ConcCI, b \in ConcCI}

Vacias ==
  /\ Bandera_RF = <<>> /\ Bandera_CT_PM25 = <<>> /\ Bandera_CT_PM10 = <<>>
  /\ ratio = <<>> /\ Bandera_CI_PM25 = <<>> /\ Bandera_CI_PM10 = <<>>
  /\ Bandera_N1_PM25 = <<>> /\ Bandera_N1_PM10 = <<>>

\* ---------------------------------------------------------------- pipeline
Init ==
  /\ pc = "cargado"
  /\ df_nuevo \in Series(FilasPipeline, MaxFilas)
  /\ Vacias

\* lines 123-187 on the aligned grid: every flag column, in the script's order
Procesar ==
  /\ pc = "cargado"
  /\ Bandera_RF' = ColRF(df_nuevo)
  /\ Bandera_CT_PM25' = consistencia_temporal(Columna(df_nuevo, "PM25_CONC_Avg"))
  /\ Bandera_CT_PM10' = consistencia_temporal(Columna(df_nuevo, "PM10_CONC_Avg"))
  /\ ratio' = ColRatio(df_nuevo)
  /\ Bandera_CI_PM25' = ColCI(ratio')
  /\ Bandera_CI_PM10' = Bandera_CI_PM25'
  /\ Bandera_N1_PM25' = ColN1(Bandera_RF', Bandera_CT_PM25', Bandera_CI_PM25')
  /\ Bandera_N1_PM10' = ColN1(Bandera_RF', Bandera_CT_PM10', Bandera_CI_PM10')
  /\ pc' = "completado"
  /\ UNCHANGED df_nuevo

Next == Procesar

Spec == Init /\ [][Next]_vars

\* ---------------------------------------------------------------- RF alone
InitRF ==
  /\ pc = "cargado"
  /\ \E row \in FilasRF : df_nuevo = <<row>>
  /\ Vacias

AplicarRF ==
  /\ pc = "cargado"
  /\ Bandera_RF' = ColRF(df_nuevo)
  /\ pc' = "rf"
  /\ UNCHANGED <<df_nuevo, Bandera_CT_PM25, Bandera_CT_PM10, ratio, Bandera_CI_PM25,
                 Bandera_CI_PM10, Bandera_N1_PM25, Bandera_N1_PM10>>

SpecRF == InitRF /\ [][AplicarRF]_vars

\* ---------------------------------------------------------------- CT alone
InitCT ==
  /\ pc = "cargado"
  /\ df_nuevo \in SeriesCT
  /\ Vacias

AplicarCT ==
  /\ pc = "cargado"
  /\ Bandera_CT_PM25' = consistencia_temporal(Columna(df_nuevo, "PM25_CONC_Avg"))
  /\ Bandera_CT_PM10' = consistencia_temporal(Columna(df_nuevo, "PM10_CONC_Avg"))
  /\ pc' = "ct"
  /\ UNCHANGED <<df_nuevo, Bandera_RF, ratio, Bandera_CI_PM25, Bandera_CI_PM10,
                 Bandera_N1_PM25, Bandera_N1_PM10>>

SpecCT == InitCT /\ [][AplicarCT]_vars

\* ---------------------------------------------------------------- CI alone
InitCI ==
  /\ pc = "cargado"
  /\ \E row \in FilasCI : df_nuevo = <<row>>
  /\ Vacias

AplicarCI ==
  /\ pc = "cargado"
  /\ ratio' = ColRatio(df_nuevo)
  /\ Bandera_CI_PM25' = ColCI(ratio')
  /\ Bandera_CI_PM10' = Bandera_CI_PM25'
  /\ pc' = "ci"
  /\ UNCHANGED <<df_nuevo, Bandera_RF, Bandera_CT_PM25, Bandera_CT_PM10,
                 Bandera_N1_PM25, Bandera_N1_PM10>>

SpecCI == InitCI /\ [][AplicarCI]_vars

\* ---------------------------------------------------------------- N1 alone
\* one row of df_final with every combination of the three flags per pollutant
InitN1 ==
  /\ pc = "banderas"
  /\ df_nuevo = <<>>
  /\ ratio = <<>>
  /\ \E rf \in Banderas, ct25 \in Banderas, ct10 \in Banderas, ci \in Banderas :
       /\ Bandera_RF = <<rf>>
       /\ Bandera_CT_PM25 = <<ct25>>
       /\ Bandera_CT_PM10 = <<ct10>>
       /\ Bandera_CI_PM25 = <<ci>>
       /\ Bandera_CI_PM10 = <<ci>>
  /\ Bandera_N1_PM25 = <<>>
  /\ Bandera_N1_PM10 = <<>>

AplicarN1 ==
  /\ pc = "banderas"
  /\ Bandera_N1_PM25' = ColN1(Bandera_RF, Bandera_CT_PM25, Bandera_CI_PM25)
  /\ Bandera_N1_PM10' = ColN1(Bandera_RF, Bandera_CT_PM10, Bandera_CI_PM10)
  /\ pc' = "n1"
  /\ UNCHANGED <<df_nuevo, Bandera_RF, Bandera_CT_PM25, Bandera_CT_PM10, ratio,
                 Bandera_CI_PM25, Bandera_CI_PM10>>

SpecN1 == InitN1 /\ [][AplicarN1]_vars

\* ================================================================ properties
PM25 == Columna(df_nuevo, "PM25_CONC_Avg")
PM10 == Columna(df_nuevo, "PM10_CONC_Avg")
\* the two (series, temporal flags) pairs of a run
ParesCT == {<<PM25, Bandera_CT_PM25>>, <<PM10, Bandera_CT_PM10>>}
\* the two (range, temporal, internal, final) columns of a run
TernasN1 ==
  {<<Bandera_RF, Bandera_CT_PM25, Bandera_CI_PM25, Bandera_N1_PM25>>,
   <<Bandera_RF, Bandera_CT_PM10, Bandera_CI_PM10, Bandera_N1_PM10>>}

Ausente(x) == x = <<>>
Presente(x) == x # <<>>

\* the rule of the temporal detector as the specification words it
ReglaCT(s, k) ==
  IF Ausente(s[k]) THEN "ND"
  ELSE IF /\ k >= 3
          /\ Presente(s[k-1]) /\ Presente(s[k-2])
          /\ s[k] = s[k-1] /\ s[k-1] = s[k-2]
          /\ (k = Len(s) \/ s[k+1] # s[k])
       THEN "D"
       ELSE "C"

\* C1: the temporal detector returns one flag per position; the flag is ND
\* where the value is absent, D where the value and its two predecessors are
\* present and equal and the position is the last one or the next value
\* differs, C elsewhere; the first two positions are never D.
C1_ReglaTemporal ==
  pc = "ct" =>
    \A p \in ParesCT :
      /\ Len(p[2]) = Len(p[1])
      /\ \A k \in 1..Len(p[1]) :
           /\ p[2][k] = ReglaCT(p[1], k)
           /\ (k <= 2 => p[2][k] # "D")

C1_Testigo ==
  /\ pc = "ct"
  /\ PM25 = <<Num(5), Num(5), Num(5), Num(5), Num(9)>>
  /\ Bandera_CT_PM25 = <<"C", "C", "C", "D", "C">>

\* positions a..b are a maximal run of three or more present, equal values
EsRacha(s, a, b) ==
  /\ b - a + 1 >= 3
  /\ \A k \in a..b : Presente(s[k]) /\ s[k] = s[a]
  /\ (a = 1 \/ s[a-1] # s[a])
  /\ (b = Len(s) \/ s[b+1] # s[b])

\* C2: every maximal run of three or more present, equal values has D at its
\* last position and C at all its other positions, and D appears nowhere else.
C2_UnaPorRacha ==
  pc = "ct" =>
    \A p \in ParesCT :
      LET s == p[1]
          f == p[2]
      IN /\ \A a \in 1..Len(s), b \in 1..Len(s) :
              EsRacha(s, a, b) =>
                /\ f[b] = "D"
                /\ \A k \in a..(b-1) : f[k] = "C"
         /\ \A k \in 1..Len(s) :
              f[k] = "D" => \E a \in 1..k : EsRacha(s, a, k)

C2_Testigo ==
  /\ pc = "ct"
  /\ PM25 = <<Num(5), Num(5), Num(5), Num(9), Num(9), Num(9)>>
  /\ Bandera_CT_PM25 = <<"C", "C", "D", "C", "C", "D">>

\* a present channel of the row lies strictly outside the bounds of section 4.1
FueraDeLimites(row) ==
  LET v(col) == row[col][1]
      p(col) == Presente(row[col])
  IN \/ (p("PM25_CONC_Avg") /\ (v("PM25_CONC_Avg") < 0 \/ v("PM25_CONC_Avg") > 6000))
     \/ (p("PM25_FLOW_Avg") /\ (v("PM25_FLOW_Avg") < 1164 \/ v("PM25_FLOW_Avg") > 1236))
     \/ (p("PM25_AMB_TEMP_Avg") /\ (v("PM25_AMB_TEMP_Avg") < -20 \/ v("PM25_AMB_TEMP_Avg") > 50))
     \/ (p("PM25_AMB_RH_Avg") /\ v("PM25_AMB_RH_Avg") > 95)
     \/ (p("PM25_BARO_PRES_Avg") /\ (v("PM25_BARO_PRES_Avg") < 900 \/ v("PM25_BARO_PRES_Avg") > 1100))
     \/ (p("PM10_CONC_Avg") /\ (v("PM10_CONC_Avg") < 0 \/ v("PM10_CONC_Avg") > 10000))

Auxiliares ==
  {"PM25_FLOW_Avg", "PM25_AMB_TEMP_Avg", "PM25_AMB_RH_Avg", "PM25_BARO_PRES_Avg"}

\* C3: the range flag is ND if both concentrations are absent, whatever the
\* auxiliary values; otherwise M if a present channel is strictly outside its
\* bounds; otherwise Dudoso if an auxiliary channel is absent; otherwise C.
C3_Rangos ==
  pc = "rf" =>
    \A k \in 1..Len(df_nuevo) :
      LET row == df_nuevo[k]
      IN Bandera_RF[k] =
           IF Ausente(row.PM25_CONC_Avg) /\ Ausente(row.PM10_CONC_Avg) THEN "ND"
           ELSE IF FueraDeLimites(row) THEN "M"
           ELSE IF \E col \in Auxiliares : Ausente(row[col]) THEN "Dudoso"
           ELSE "C"

C3_Testigo ==
  /\ pc = "rf"
  /\ df_nuevo = <<Fila(Num(6000), Num(0), Num(1236), Num(-20), Num(95), Num(1100))>>
  /\ Bandera_RF = <<"C">>

\* C4: with PM10 not zero, the internal flag is ND if a concentration is
\* absent, D if PM25 / PM10 > 1 and C otherwise (ratio 1 included), and PM2.5
\* and PM10 carry the same flag.
C4_Interna ==
  pc = "ci" =>
    \A k \in 1..Len(df_nuevo) :
      LET a == df_nuevo[k].PM25_CONC_Avg
          b == df_nuevo[k].PM10_CONC_Avg
      IN /\ Bandera_CI_PM25[k] = Bandera_CI_PM10[k]
         /\ b # <<0>> =>
              Bandera_CI_PM25[k] =
                IF Ausente(a) \/ Ausente(b) THEN "ND"
                ELSE IF (b[1] > 0 /\ a[1] > b[1]) \/ (b[1] < 0 /\ a[1] < b[1]) THEN "D"
                ELSE "C"

C4_Testigo ==
  /\ pc = "ci"
  /\ df_nuevo[1].PM25_CONC_Avg = <<12>>
  /\ df_nuevo[1].PM10_CONC_Avg = <<10>>
  /\ Bandera_CI_PM25 = <<"D">>
  /\ Bandera_CI_PM10 = <<"D">>

\* C5: with PM10 = 0 and PM25 present and not zero the internal flag is
\* neither D nor C.
C5_DenominadorCero ==
  pc = "ci" =>
    \A k \in 1..Len(df_nuevo) :
      LET a == df_nuevo[k].PM25_CONC_Avg
          b == df_nuevo[k].PM10_CONC_Avg
      IN (b = <<0>> /\ Presente(a) /\ a # <<0>>) =>
           /\ Bandera_CI_PM25[k] \notin {"D", "C"}
           /\ Bandera_CI_PM10[k] \notin {"D", "C"}

\* the three input flags of row k
Terna(t, k) == {t[1][k], t[2][k], t[3][k]}

\* C6: the final flag is M when an input is M; D when no input is M and one is
\* D; ND when all three are ND; C when all three are C.
C6_Precedencia ==
  pc = "n1" =>
    \A t \in TernasN1 : \A k \in 1..Len(t[4]) :
      /\ "M" \in Terna(t, k) => t[4][k] = "M"
      /\ ("M" \notin Terna(t, k) /\ "D" \in Terna(t, k)) => t[4][k] = "D"
      /\ Terna(t, k) = {"ND"} => t[4][k] = "ND"
      /\ Terna(t, k) = {"C"} => t[4][k] = "C"

C6_Testigo ==
  /\ pc = "n1"
  /\ Bandera_RF = <<"Dudoso">> /\ Bandera_CT_PM25 = <<"D">> /\ Bandera_CI_PM25 = <<"M">>
  /\ Bandera_N1_PM25 = <<"M">>

\* C7 as stated: inputs not all ND, none M, none D, and every input other
\* than ND is C: the final flag is C.
C7_Original ==
  pc = "n1" =>
    \A t \in TernasN1 : \A k \in 1..Len(t[4]) :
      (Terna(t, k) # {"ND"} /\ Terna(t, k) \subseteq {"C", "ND"}) => t[4][k] = "C"

\* C7 amended: with no input M and none D, the final flag is C exactly when
\* all three inputs are C; an ND input is not skipped, so C mixed with ND
\* gives ND.
C7_TodasC ==
  pc = "n1" =>
    \A t \in TernasN1 : \A k \in 1..Len(t[4]) :
      (Terna(t, k) \cap {"M", "D"} = {}) =>
        /\ t[4][k] = "C" <=> Terna(t, k) = {"C"}
        /\ "ND" \in Terna(t, k) => t[4][k] = "ND"

C7_Testigo ==
  /\ pc = "n1"
  /\ Bandera_RF = <<"C">> /\ Bandera_CT_PM25 = <<"ND">> /\ Bandera_CI_PM25 = <<"C">>
  /\ Bandera_N1_PM25 = <<"ND">>

\* C8: the final flag is one of C, D, M, ND, and a triple with Dudoso and
\* neither M nor D gives ND.
C8_SinDudoso ==
  pc = "n1" =>
    \A t \in TernasN1 : \A k \in 1..Len(t[4]) :
      /\ t[4][k] \in {"C", "D", "M", "ND"}
      /\ ("Dudoso" \in Terna(t, k) /\ Terna(t, k) \cap {"M", "D"} = {}) => t[4][k] = "ND"

C8_Testigo ==
  /\ pc = "n1"
  /\ Bandera_RF = <<"Dudoso">> /\ Bandera_CT_PM10 = <<"C">> /\ Bandera_CI_PM10 = <<"C">>
  /\ Bandera_N1_PM10 = <<"ND">>

\* C9: a row with every channel absent has ND as range, temporal, internal
\* and final flag of both pollutants; no position is D when its value or one
\* of the two before it is absent; three or more equal present values
\* followed by an absent one have D at their last position.
C9_Huecos ==
  pc = "completado" =>
    /\ \A k \in 1..Len(df_nuevo) :
         (\A col \in DOMAIN df_nuevo[k] : Ausente(df_nuevo[k][col])) =>
           /\ Bandera_RF[k] = "ND"
           /\ Bandera_CT_PM25[k] = "ND" /\ Bandera_CT_PM10[k] = "ND"
           /\ Bandera_CI_PM25[k] = "ND" /\ Bandera_CI_PM10[k] = "ND"
           /\ Bandera_N1_PM25[k] = "ND" /\ Bandera_N1_PM10[k] = "ND"
    /\ \A p \in ParesCT : \A k \in 1..Len(p[1]) :
         /\ (\E j \in {k-2, k-1, k} : j >= 1 /\ Ausente(p[1][j])) => p[2][k] # "D"
         /\ ( /\ k >= 3 /\ k < Len(p[1])
              /\ Presente(p[1][k]) /\ p[1][k-1] = p[1][k] /\ p[1][k-2] = p[1][k]
              /\ Ausente(p[1][k+1]) ) => p[2][k] = "D"

C9_Testigo ==
  /\ pc = "completado"
  /\ Len(df_nuevo) = 4
  /\ PM25 = <<Num(5), Num(5), Num(5), NaN>>
  /\ df_nuevo[4] = AuxVacio(NaN, NaN)
  /\ Bandera_CT_PM25 = <<"C", "C", "D", "ND">>
  /\ Bandera_RF[4] = "ND" /\ Bandera_CI_PM25[4] = "ND"
  /\ Bandera_N1_PM25[4] = "ND" /\ Bandera_N1_PM10[4] = "ND"

\* C10: where a pollutant's concentration is absent its final flag is M if
\* the row's range flag is M (another present channel is out of bounds) and
\* ND otherwise, so never C and never D.
C10_ContaminanteAusente ==
  pc = "completado" =>
    \A q \in {<<PM25, Bandera_N1_PM25>>, <<PM10, Bandera_N1_PM10>>} :
      \A k \in 1..Len(df_nuevo) :
        Ausente(q[1][k]) =>
          /\ q[2][k] = (IF Bandera_RF[k] = "M" THEN "M" ELSE "ND")
          /\ Bandera_RF[k] = "M" => FueraDeLimites(df_nuevo[k])

C10_Testigo ==
  /\ pc = "completado"
  /\ df_nuevo[1] = AuxFlujoFuera(NaN, Num(5))
  /\ Bandera_RF[1] = "M"
  /\ Bandera_N1_PM25[1] = "M"

====
